---- MODULE Spec2Model ----
(***************************************************************************)
(* Model of the garment collage layout code of src/main.py: the cutout     *)
(* normaliser (process_images), the vertical stack (merge_group), the      *)
(* outfit composer (merge_images_for_outfit behind generate_outfit) and    *)
(* the capsule composer (merge_images_for_capsule).                        *)
(*                                                                         *)
(* A raster is modelled by what the layout reads of it: its pixel mode,    *)
(* whether a palette image carries a 'transparency' entry, its size, and   *)
(* the size of the bounding box Image.getbbox() finds in it (bw = 0 when   *)
(* getbbox() returns None: no pixel with alpha > 0).  A canvas is modelled *)
(* by its size and the list of rectangles pasted on it.                    *)
(***************************************************************************)
EXTENDS Integers, Sequences, FiniteSets, TLC

VARIABLES request, phase, result

vars == <<request, phase, result>>

(* ------------------------------ bounds -------------------------------- *)
MaxStack == 3
MaxOutfit == 3
MaxCapsule == 4

(* -------------------------- program constants -------------------------- *)
Spacing == 10

TOP == "TOP"
OUTWEAR == "OUTWEAR"
UNDERWEAR == "UNDERWEAR"
FOOTWEAR == "FOOTWEAR"
ACCESSORY == "ACCESSORY"
NONE == "NONE"

CLOTH_TYPE_ORDER == <<TOP, OUTWEAR, UNDERWEAR, FOOTWEAR, ACCESSORY, NONE>>

ClothType == {TOP, OUTWEAR, UNDERWEAR, FOOTWEAR, ACCESSORY, NONE}

(* ------------------------------ helpers -------------------------------- *)
Max2(a, b) == IF a >= b THEN a ELSE b

SeqsUpTo(S, n) == UNION {[1..k -> S] : k \in 0..n}

Raster(mode, transp, w, h, bw, bh) ==
    [mode |-> mode, transp |-> transp, w |-> w, h |-> h, bw |-> bw, bh |-> bh]

Cloth(type, image) == [type |-> type, image |-> image]

(* Python's None, for a bounding box and for a missing image. *)
None == <<>>

(* ---------------------------- PIL primitives --------------------------- *)
(* Image.getbbox(): None when the image has no non-zero (alpha) pixel. *)
getbbox(img) == IF img.bw = 0 THEN None ELSE <<img.bw, img.bh>>

(* Image.crop(box): crop(None) returns a copy of the whole image. *)
crop(img, box) ==
    IF box = None THEN img
    ELSE [img EXCEPT !.w = box[1], !.h = box[2]]

(* len(img.split()): the number of bands of a mode. *)
Bands(mode) ==
    CASE mode = "RGBA" -> 4
      [] mode = "RGB" -> 3
      [] mode = "LA" -> 2
      [] OTHER -> 1

(* Image.new(mode, size): "Width and height must be >= 0". *)
ImageNewOk(w, h) == w >= 0 /\ h >= 0

(* -------------------------- merge_group (stack) ------------------------ *)
RECURSIVE MaxWidth(_)
MaxWidth(images) ==
    IF Len(images) = 1 THEN Head(images).w
    ELSE Max2(Head(images).w, MaxWidth(Tail(images)))

RECURSIVE SumHeight(_)
SumHeight(images) ==
    IF images = <<>> THEN 0
    ELSE Head(images).h + SumHeight(Tail(images))

StackXOffset(total_width, img) == (total_width - img.w) \div 2

StackAdvanceNoGap(current_y, img, spacing) == current_y + img.h

StackAdvance(current_y, img, spacing) == current_y + img.h + spacing

RECURSIVE MergeGroupLoop(_, _, _, _)
MergeGroupLoop(images, spacing, total_width, current_y) ==
    IF images = <<>> THEN <<>>
    ELSE LET img == Head(images)
         IN <<[x |-> StackXOffset(total_width, img), y |-> current_y,
               w |-> img.w, h |-> img.h]>>
            \o MergeGroupLoop(Tail(images), spacing, total_width,
                              StackAdvance(current_y, img, spacing))

(* max() of an empty generator raises ValueError before anything else. *)
merge_group(images, spacing) ==
    IF images = <<>>
    THEN [ok |-> FALSE, exc |-> "ValueError", width |-> 0, height |-> 0,
          pastes |-> <<>>]
    ELSE LET total_width == MaxWidth(images)
             total_height == SumHeight(images) + spacing * (Len(images) - 1)
         IN [ok |-> TRUE, exc |-> "", width |-> total_width,
             height |-> total_height,
             pastes |-> MergeGroupLoop(images, spacing, total_width, 0)]

(* --------------------------- process_images ---------------------------- *)
(* The alpha test of the flattening branch. *)
HasAlpha(img) ==
    img.mode \in {"RGBA", "LA"} \/ (img.mode = "P" /\ img.transp)

(* img_cropped.split()[3] raises IndexError when the mode has fewer than
   four bands. *)
SplitAlphaOk(img) == Bands(img.mode) > 3

Opaque(img) == Raster("RGB", FALSE, img.w, img.h, img.w, img.h)

RECURSIVE process_images(_)
process_images(images) ==
    IF images = <<>> THEN [ok |-> TRUE, exc |-> "", images |-> <<>>]
    ELSE LET cloth == Head(images)
             bbox == getbbox(cloth.image)
             img_cropped == crop(cloth.image, bbox)
             rest == process_images(Tail(images))
         IN IF HasAlpha(img_cropped) /\ ~SplitAlphaOk(img_cropped)
            THEN [ok |-> FALSE, exc |-> "IndexError", images |-> <<>>]
            ELSE IF ~rest.ok THEN rest
            ELSE [ok |-> TRUE, exc |-> "",
                  images |-> <<Cloth(cloth.type, Opaque(img_cropped))>>
                             \o rest.images]

(* ----------------------- merge_images_for_outfit ----------------------- *)
OfType(images, type) == SelectSeq(images, LAMBDA c : c.type = type)

(* next((img for ... if cloth_type == type), None) *)
FirstOfType(images, type) ==
    IF OfType(images, type) = <<>> THEN None
    ELSE Head(OfType(images, type)).image

ImagesOf(cloths) == [i \in 1..Len(cloths) |-> cloths[i].image]

(* Truth value of a Python object that is either None or an Image. *)
Truthy(img) == img # None

Present(group) == SelectSeq(group, Truthy)

Failure(exc) ==
    [ok |-> FALSE, exc |-> exc, width |-> 0, height |-> 0, pastes |-> <<>>]

OverlayX(base_x, base_image, spacing) == base_x + base_image.width + spacing

OutfitWidth(base_image, overlay_image, spacing) ==
    (IF Truthy(base_image) THEN base_image.width ELSE 0)
    + (IF Truthy(overlay_image) THEN overlay_image.width ELSE 0) + spacing

merge_images_for_outfit(images, spacing) ==
    LET processed == process_images(images)
        processed_images == processed.images
        top_img == FirstOfType(processed_images, TOP)
        outwear_img == FirstOfType(processed_images, OUTWEAR)
        underwear_img == FirstOfType(processed_images, UNDERWEAR)
        footwear_img == FirstOfType(processed_images, FOOTWEAR)
        accessory_imgs == ImagesOf(OfType(processed_images, ACCESSORY))
        base_group == <<top_img, underwear_img, footwear_img>>
        overlay_group == <<outwear_img>> \o accessory_imgs
        base_image == merge_group(Present(base_group), spacing)
        overlay_image == merge_group(Present(overlay_group), spacing)
        max_width == OutfitWidth(base_image, overlay_image, spacing)
        max_height ==
            Max2(IF Truthy(base_image) THEN base_image.height ELSE 0,
                 IF Truthy(overlay_image) THEN overlay_image.height ELSE 0)
        base_x ==
            (max_width - base_image.width
             - (IF Truthy(overlay_image) THEN overlay_image.width ELSE 0)
             - spacing) \div 2
        overlay_x == OverlayX(base_x, base_image, spacing)
    IN IF ~processed.ok THEN Failure(processed.exc)
       ELSE IF ~base_image.ok THEN Failure(base_image.exc)
       ELSE IF ~overlay_image.ok THEN Failure(overlay_image.exc)
       ELSE IF ~ImageNewOk(max_width, max_height) THEN Failure("ValueError")
       ELSE [ok |-> TRUE, exc |-> "", width |-> max_width,
             height |-> max_height,
             pastes |->
                <<[what |-> "base", x |-> base_x, y |-> 0,
                   w |-> base_image.width, h |-> base_image.height],
                  [what |-> "overlay", x |-> overlay_x, y |-> 0,
                   w |-> overlay_image.width, h |-> overlay_image.height]>>]

(* --------------------------- generate_outfit --------------------------- *)
(* clothes.sort(key=CLOTH_TYPE_ORDER.index): a stable sort by category. *)
RECURSIVE SortFrom(_, _)
SortFrom(clothes, k) ==
    IF k > Len(CLOTH_TYPE_ORDER) THEN <<>>
    ELSE OfType(clothes, CLOTH_TYPE_ORDER[k]) \o SortFrom(clothes, k + 1)

SortByType(clothes) == SortFrom(clothes, 1)

generate_outfit(clothes) ==
    LET images == SortByType(clothes)
        merged_image == merge_images_for_outfit(images, Spacing)
    IN IF ~merged_image.ok
       THEN [status |-> 500, detail |-> "Error merging images",
             exc |-> merged_image.exc, image |-> merged_image]
       ELSE [status |-> 200, detail |-> "", exc |-> "",
             image |-> merged_image]

(* ---------------------- merge_images_for_capsule ----------------------- *)
(* for outfit in outfits: for cloth in outfit.clothes *)
RECURSIVE AllClothes(_)
AllClothes(outfits) ==
    IF outfits = <<>> THEN <<>>
    ELSE Head(outfits) \o AllClothes(Tail(outfits))

(* cloth_image.crop(cloth_image.getbbox(alpha_only=True)) *)
CropToBBox(clothes) ==
    [i \in 1..Len(clothes) |->
        Cloth(clothes[i].type, crop(clothes[i].image, getbbox(clothes[i].image)))]

(* max_<bucket>_width / max_<bucket>_height, starting from 0. *)
RECURSIVE MaxW(_)
MaxW(images) ==
    IF images = <<>> THEN 0 ELSE Max2(Head(images).w, MaxW(Tail(images)))

RECURSIVE MaxH(_)
MaxH(images) ==
    IF images = <<>> THEN 0 ELSE Max2(Head(images).h, MaxH(Tail(images)))

Bucket(clothes, type) == ImagesOf(OfType(clothes, type))

(* int((unit_width - img.width) / 2): the numerator is never negative. *)
CellPasteX(x_offset, img, unit_width) == x_offset + (unit_width - img.w) \div 2

TopAdvance(x_offset, img, unit_width, spacing) == x_offset + spacing + unit_width

ItemAdvance(x_offset, img, unit_width, spacing) == x_offset + spacing + img.w

NextBandNoGap(y_offset, unit_height, spacing) == y_offset + unit_height

NextBand(y_offset, unit_height, spacing) == y_offset + spacing + unit_height

(* One paste loop: pastes the images left to right from x_offset at
   y_offset and returns the pasted rectangles with the final x_offset. *)
RECURSIVE PasteLoop(_, _, _, _, _, _, _)
PasteLoop(images, type, j, x_offset, y_offset, unit_width, spacing) ==
    IF images = <<>> THEN [pastes |-> <<>>, x_offset |-> x_offset]
    ELSE LET img == Head(images)
             next_x == IF type = TOP
                       THEN TopAdvance(x_offset, img, unit_width, spacing)
                       ELSE ItemAdvance(x_offset, img, unit_width, spacing)
             rest == PasteLoop(Tail(images), type, j + 1, next_x, y_offset,
                               unit_width, spacing)
         IN [pastes |->
                <<[type |-> type, j |-> j, cell_x |-> x_offset,
                   band_y |-> y_offset,
                   x |-> CellPasteX(x_offset, img, unit_width),
                   y |-> y_offset, w |-> img.w, h |-> img.h]>>
                \o rest.pastes,
             x_offset |-> rest.x_offset]

(* real_width += spacing + unit_width, once per pasted item. *)
RECURSIVE AddCells(_, _, _, _)
AddCells(real_width, n, unit_width, spacing) ==
    IF n = 0 THEN real_width
    ELSE AddCells(real_width + spacing + unit_width, n - 1, unit_width, spacing)

CapsuleFailure(exc) ==
    [ok |-> FALSE, exc |-> exc, total_width |-> 0, total_height |-> 0,
     unit_width |-> 0, unit_height |-> 0, real_width |-> 0,
     pastes |-> <<>>, width |-> 0, height |-> 0]

merge_images_for_capsule(outfits, spacing) ==
    LET clothes == CropToBBox(AllClothes(outfits))
        tops == Bucket(clothes, TOP)
        underwears == Bucket(clothes, UNDERWEAR)
        footwears == Bucket(clothes, FOOTWEAR)
        outwears == Bucket(clothes, OUTWEAR)
        accessories == Bucket(clothes, ACCESSORY)
        unit_width ==
            Max2(MaxW(tops), Max2(MaxW(underwears), Max2(MaxW(footwears),
                 Max2(MaxW(outwears), MaxW(accessories)))))
        unit_height ==
            Max2(MaxH(underwears), Max2(MaxH(outwears), Max2(MaxH(footwears),
                 Max2(MaxH(accessories), MaxH(tops)))))
        side == Max2(Len(outwears), Len(accessories))
        total_width ==
            (Len(tops) - 1) * spacing + Len(tops) * unit_width
            + (side - 1) * spacing + side * unit_width
        total_height == 2 * spacing + 3 * unit_height
        topLoop == PasteLoop(tops, TOP, 0, 0, 0, unit_width, spacing)
        real_tops == AddCells(0 - spacing, Len(tops), unit_width, spacing)
        dx == topLoop.x_offset
        outLoop == PasteLoop(outwears, OUTWEAR, 0, dx, 0, unit_width, spacing)
        y_acc == IF Len(outwears) # 0
                 THEN NextBand(0, unit_height, spacing) ELSE 0
        accLoop == PasteLoop(accessories, ACCESSORY, 0, dx, y_acc,
                             unit_width, spacing)
        y_side == IF Len(outwears) # 0 /\ Len(accessories) # 0
                  THEN y_acc ELSE 0
        real_width ==
            IF Len(outwears) # 0
            THEN real_tops + (side * unit_width + (side - 1) * spacing)
            ELSE AddCells(real_tops, Len(accessories), unit_width, spacing)
        y_under == NextBand(y_side, unit_height, spacing)
        underLoop == PasteLoop(underwears, UNDERWEAR, 0, 0, y_under,
                               unit_width, spacing)
        y_foot == NextBand(y_under, unit_height, spacing)
        footLoop == PasteLoop(footwears, FOOTWEAR, 0, 0, y_foot,
                              unit_width, spacing)
    IN IF ~ImageNewOk(total_width, total_height)
       THEN CapsuleFailure("ValueError")
       \* Image.crop refuses a box whose right edge is left of its left edge.
       ELSE IF real_width < 0 THEN CapsuleFailure("ValueError")
       ELSE [ok |-> TRUE, exc |-> "", total_width |-> total_width,
             total_height |-> total_height, unit_width |-> unit_width,
             unit_height |-> unit_height, real_width |-> real_width,
             pastes |-> topLoop.pastes \o outLoop.pastes \o accLoop.pastes
                        \o underLoop.pastes \o footLoop.pastes,
             width |-> real_width, height |-> total_height]

(* ---------------------------- generate_capsule ------------------------- *)
generate_capsule(outfits) ==
    LET merged_image == merge_images_for_capsule(outfits, Spacing)
    IN IF ~merged_image.ok
       THEN [status |-> 500, detail |-> "Error merging images",
             exc |-> merged_image.exc, image |-> merged_image]
       ELSE [status |-> 200, detail |-> "", exc |-> "",
             image |-> merged_image]

(* ------------------------------- inputs -------------------------------- *)
StackSizes == {<<1, 2>>, <<4, 5>>, <<7, 2>>, <<4, 3>>}

StackImages == {Raster("RGB", FALSE, s[1], s[2], s[1], s[2]) : s \in StackSizes}

StackSpacings == {0, 1, 10}

StackRequests ==
    {[op |-> "merge_group", images |-> im, spacing |-> sp] :
        im \in SeqsUpTo(StackImages, MaxStack), sp \in StackSpacings}

(* Rasters as Image.open() hands them to the outfit endpoint: tightly
   cropped RGBA cutouts, a cutout with a transparent margin, a fully
   transparent RGBA image, a greyscale+alpha image and a palette image
   with a transparency entry. *)
CutoutA == Raster("RGBA", FALSE, 100, 200, 100, 200)
CutoutB == Raster("RGBA", FALSE, 90, 90, 80, 80)
CutoutC == Raster("RGBA", FALSE, 40, 40, 40, 40)
Transparent == Raster("RGBA", FALSE, 50, 60, 0, 0)
GreyAlpha == Raster("LA", FALSE, 30, 30, 30, 30)
Palette == Raster("P", TRUE, 20, 20, 20, 20)

OutfitClothes ==
    {Cloth(t, r) : t \in ClothType, r \in {CutoutA, CutoutB, CutoutC}}
    \cup {Cloth(TOP, Transparent), Cloth(ACCESSORY, Transparent),
          Cloth(TOP, GreyAlpha), Cloth(OUTWEAR, Palette)}

OutfitRequests ==
    {[op |-> "generate_outfit", clothes |-> cl] :
        cl \in SeqsUpTo(OutfitClothes, MaxOutfit)}

(* Capsule garments: a small cutout with a transparent margin, a wide
   cutout, and a fully transparent image. *)
Small == Raster("RGBA", FALSE, 6, 8, 4, 6)
Wide == Raster("RGBA", FALSE, 30, 8, 30, 8)
Blank == Raster("RGBA", FALSE, 5, 5, 0, 0)

CapsuleClothes ==
    {Cloth(t, r) : t \in ClothType \ {NONE}, r \in {Small, Wide}}
    \cup {Cloth(NONE, Wide), Cloth(TOP, Blank)}

(* The clothes of a capsule request arrive split over two outfits. *)
SplitInTwo(cl) ==
    <<SubSeq(cl, 1, (Len(cl) + 1) \div 2),
      SubSeq(cl, (Len(cl) + 1) \div 2 + 1, Len(cl))>>

CapsuleRequests ==
    {[op |-> "generate_capsule", outfits |-> SplitInTwo(cl)] :
        cl \in SeqsUpTo(CapsuleClothes, MaxCapsule)}

NoResult == [op |-> "none"]

(* ------------------------------ actions -------------------------------- *)
CallMergeGroup ==
    /\ phase = "pending"
    /\ request.op = "merge_group"
    /\ result' = [op |-> "merge_group",
                  out |-> merge_group(request.images, request.spacing)]
    /\ phase' = "done"
    /\ UNCHANGED request

GenerateOutfit ==
    /\ phase = "pending"
    /\ request.op = "generate_outfit"
    /\ result' = [op |-> "generate_outfit",
                  out |-> generate_outfit(request.clothes)]
    /\ phase' = "done"
    /\ UNCHANGED request

GenerateCapsule ==
    /\ phase = "pending"
    /\ request.op = "generate_capsule"
    /\ result' = [op |-> "generate_capsule",
                  out |-> generate_capsule(request.outfits)]
    /\ phase' = "done"
    /\ UNCHANGED request

InitStack ==
    /\ request \in StackRequests
    /\ phase = "pending"
    /\ result = NoResult

NextStack == CallMergeGroup

SpecStack == InitStack /\ [][NextStack]_vars

InitOutfit ==
    /\ request \in OutfitRequests
    /\ phase = "pending"
    /\ result = NoResult

NextOutfit == GenerateOutfit

SpecOutfit == InitOutfit /\ [][NextOutfit]_vars

InitCapsule ==
    /\ request \in CapsuleRequests
    /\ phase = "pending"
    /\ result = NoResult

NextCapsule == GenerateCapsule

SpecCapsule == InitCapsule /\ [][NextCapsule]_vars

(* All three entry points, one request per behaviour. *)
Init ==
    /\ request \in StackRequests \cup OutfitRequests \cup CapsuleRequests
    /\ phase = "pending"
    /\ result = NoResult

Next == CallMergeGroup \/ GenerateOutfit \/ GenerateCapsule

Spec == Init /\ [][Next]_vars

(* ======================= properties of merge_group ===================== *)
StackDone == phase = "done" /\ result.op = "merge_group"

RECURSIVE HeightsUpTo(_, _)
HeightsUpTo(images, i) ==
    IF i = 0 THEN 0 ELSE images[i].h + HeightsUpTo(images, i - 1)

Abs(n) == IF n < 0 THEN 0 - n ELSE n

(* C6: for a non-empty list, merge_group returns a canvas as wide as the
   widest input and sum(heights) + spacing*(n-1) high; item i is pasted at
   x = (W - w_i) div 2, so that 2x + w_i is within 1 of W, and at
   y = heights before it + (i-1)*spacing; consecutive items are exactly
   `spacing` rows apart and the last item ends at the canvas bottom. *)
C6_StackGeometry ==
    (StackDone /\ request.images # <<>>) =>
        LET im == request.images
            n == Len(im)
            sp == request.spacing
            r == result.out
        IN /\ r.ok
           /\ \E i \in 1..n : r.width = im[i].w
           /\ \A i \in 1..n : r.width >= im[i].w
           /\ r.height = HeightsUpTo(im, n) + sp * (n - 1)
           /\ Len(r.pastes) = n
           /\ \A i \in 1..n :
                /\ r.pastes[i].w = im[i].w /\ r.pastes[i].h = im[i].h
                /\ r.pastes[i].x = (r.width - im[i].w) \div 2
                /\ r.pastes[i].x >= 0
                /\ Abs(2 * r.pastes[i].x + im[i].w - r.width) <= 1
                /\ r.pastes[i].y = HeightsUpTo(im, i - 1) + (i - 1) * sp
                /\ i < n =>
                     r.pastes[i + 1].y - (r.pastes[i].y + im[i].h) = sp
           /\ r.pastes[n].y + im[n].h = r.height

C6_Witness ==
    /\ StackDone
    /\ Len(request.images) = 3
    /\ request.spacing = 10
    /\ request.images[1].w < request.images[2].w
    /\ request.images[3].w < request.images[2].w
    /\ result.out.ok

(* ==================== properties of the outfit composer ================ *)
OutfitDone == phase = "done" /\ result.op = "generate_outfit"

FirstCloth(clothes, type) ==
    IF OfType(clothes, type) = <<>> THEN <<>>
    ELSE <<Head(OfType(clothes, type))>>

(* The garments of the base block and of the overlay block of a request. *)
ReqBase ==
    FirstCloth(request.clothes, TOP) \o FirstCloth(request.clothes, UNDERWEAR)
    \o FirstCloth(request.clothes, FOOTWEAR)

ReqOverlay ==
    FirstCloth(request.clothes, OUTWEAR) \o OfType(request.clothes, ACCESSORY)

(* Size of a garment once cropped to its bounding box. *)
CutW(c) == IF c.image.bw = 0 THEN c.image.w ELSE c.image.bw

CutH(c) == IF c.image.bw = 0 THEN c.image.h ELSE c.image.bh

BlockW(block) ==
    CHOOSE m \in {CutW(block[i]) : i \in DOMAIN block} :
        \A i \in DOMAIN block : m >= CutW(block[i])

RECURSIVE CutHeights(_)
CutHeights(block) ==
    IF block = <<>> THEN 0 ELSE CutH(Head(block)) + CutHeights(Tail(block))

BlockH(block) == CutHeights(block) + Spacing * (Len(block) - 1)

FullyTransparent(c) == c.image.bw = 0

(* The two-block layout of a returned outfit raster. *)
TwoBlockLayout(img) ==
    LET bw == BlockW(ReqBase)
        ow == BlockW(ReqOverlay)
        base == img.pastes[1]
        overlay == img.pastes[2]
    IN /\ img.width = bw + ow + Spacing
       /\ img.height = Max2(BlockH(ReqBase), BlockH(ReqOverlay))
       /\ base.w = bw /\ base.h = BlockH(ReqBase)
       /\ overlay.w = ow /\ overlay.h = BlockH(ReqOverlay)
       /\ base.y = 0 /\ overlay.y = 0
       /\ Abs(2 * base.x + (bw + Spacing + ow) - img.width) <= 1
       /\ overlay.x = base.x + bw + Spacing
       /\ base.x >= 0 /\ base.x + base.w <= img.width
       /\ base.h <= img.height
       /\ overlay.x >= 0 /\ overlay.x + overlay.w <= img.width
       /\ overlay.h <= img.height

(* C2: with exactly one of the two blocks present the outfit composer
   returns a raster whose width is the present block's width (no spacing
   term) and whose height is the present block's height. *)
C2_OneBlockReturnsRaster ==
    (OutfitDone /\ ((ReqBase = <<>>) # (ReqOverlay = <<>>))) =>
        LET present == IF ReqBase # <<>> THEN ReqBase ELSE ReqOverlay
        IN /\ result.out.status = 200
           /\ result.out.image.width = BlockW(present)
           /\ result.out.image.height = BlockH(present)

(* C3: with both blocks present the outfit composer returns a raster of
   width base.width + overlay.width + spacing and height
   max(base.height, overlay.height), the base pasted at y = 0 centring the
   composition, the overlay at y = 0 `spacing` right of the base, both
   inside the canvas. *)
C3_TwoBlocksReturnRaster ==
    (OutfitDone /\ ReqBase # <<>> /\ ReqOverlay # <<>>) =>
        /\ result.out.status = 200
        /\ TwoBlockLayout(result.out.image)

(* Whenever the composer does return a raster for two blocks, the raster
   has the two-block layout. *)
TwoBlockLayoutWhenReturned ==
    (OutfitDone /\ ReqBase # <<>> /\ ReqOverlay # <<>>
     /\ result.out.status = 200) => TwoBlockLayout(result.out.image)

(* Scenario 1 of the outfit composer is reached and returns 150 x 290. *)
ScenarioOneReached ==
    /\ OutfitDone
    /\ request.clothes = <<Cloth(TOP, CutoutA), Cloth(FOOTWEAR, CutoutB),
                           Cloth(ACCESSORY, CutoutC)>>
    /\ result.out.status = 200
    /\ result.out.image.width = 140 + Spacing
    /\ result.out.image.height = 280 + Spacing

(* C7: an outfit with no placeable garment fails with the dedicated
   EmptyOutfitError, not with the generic composition error. *)
C7_EmptyOutfitError ==
    (OutfitDone /\ ReqBase = <<>> /\ ReqOverlay = <<>>) =>
        /\ result.out.status # 200
        /\ result.out.exc = "EmptyOutfitError"
        /\ result.out.detail # "Error merging images"

RequestClothes ==
    IF request.op = "generate_outfit" THEN request.clothes
    ELSE IF request.op = "generate_capsule" THEN AllClothes(request.outfits)
    ELSE <<>>

(* C8: a fully transparent garment makes either composer raise
   EmptyCutoutError before any canvas is allocated or any paste happens,
   and no composite is returned. *)
C8_EmptyCutoutError ==
    (phase = "done" /\ result.op \in {"generate_outfit", "generate_capsule"}
     /\ \E i \in DOMAIN RequestClothes : FullyTransparent(RequestClothes[i]))
    => /\ result.out.status # 200
       /\ result.out.exc = "EmptyCutoutError"
       /\ result.out.image.pastes = <<>>

(* A composite is returned although a garment of it is fully transparent. *)
BlankGarmentComposed ==
    /\ phase = "done"
    /\ result.op \in {"generate_outfit", "generate_capsule"}
    /\ \E i \in DOMAIN RequestClothes : FullyTransparent(RequestClothes[i])
    /\ result.out.status = 200
    /\ result.out.image.pastes # <<>>

(* =================== properties of the capsule composer ================ *)
CapsuleDone == phase = "done" /\ result.op = "generate_capsule"

CapsuleReturned == CapsuleDone /\ result.out.status = 200

Capsule == result.out.image

(* The pooled garments of the request, NONE excluded. *)
Pooled == SelectSeq(AllClothes(request.outfits), LAMBDA c : c.type # NONE)

Count(type) == Len(OfType(Pooled, type))

(* Where the band structure puts the band and the first cell of a
   category, from the bucket sizes and the unit cell alone. *)
BandStep == Capsule.unit_height + Spacing

BandBPresent == Count(OUTWEAR) > 0 /\ Count(ACCESSORY) > 0

BandY(type) ==
    CASE type \in {TOP, OUTWEAR} -> 0
      [] type = ACCESSORY -> IF Count(OUTWEAR) > 0 THEN BandStep ELSE 0
      [] type = UNDERWEAR -> IF BandBPresent THEN 2 * BandStep ELSE BandStep
      [] type = FOOTWEAR -> IF BandBPresent THEN 3 * BandStep ELSE 2 * BandStep

BandStartX(type) ==
    IF type \in {OUTWEAR, ACCESSORY}
    THEN Count(TOP) * (Capsule.unit_width + Spacing)
    ELSE 0

UnitIsLargest ==
    /\ \A i \in DOMAIN Pooled :
          /\ Capsule.unit_width >= CutW(Pooled[i])
          /\ Capsule.unit_height >= CutH(Pooled[i])
    /\ \E i \in DOMAIN Pooled : Capsule.unit_width = CutW(Pooled[i])
    /\ \E i \in DOMAIN Pooled : Capsule.unit_height = CutH(Pooled[i])

(* C1: every pasted garment rectangle lies inside the pre-trim canvas and
   inside the final crop (0, 0, real_width, total_height). *)
C1_PastesInsideCanvasAndCrop ==
    CapsuleReturned =>
        \A i \in DOMAIN Capsule.pastes :
            LET p == Capsule.pastes[i]
            IN /\ p.x >= 0 /\ p.y >= 0
               /\ p.x + p.w <= Capsule.total_width
               /\ p.y + p.h <= Capsule.total_height
               /\ p.x + p.w <= Capsule.real_width

(* C4: every band advances by unit.width + spacing per item and every item
   is centred in its unit cell on both axes (within 1px). *)
C4_UniformCellsCentred ==
    CapsuleReturned =>
        \A i \in DOMAIN Capsule.pastes :
            LET p == Capsule.pastes[i]
            IN /\ p.cell_x = BandStartX(p.type)
                             + p.j * (Capsule.unit_width + Spacing)
               /\ Abs(2 * (p.x - p.cell_x) + p.w - Capsule.unit_width) <= 1
               /\ Abs(2 * (p.y - BandY(p.type)) + p.h - Capsule.unit_height) <= 1

(* The horizontal half of C4 for the tops band alone. *)
TopsUniformCells ==
    CapsuleReturned =>
        \A i \in DOMAIN Capsule.pastes :
            LET p == Capsule.pastes[i]
            IN p.type = TOP =>
                 /\ p.cell_x = p.j * (Capsule.unit_width + Spacing)
                 /\ Abs(2 * (p.x - p.cell_x) + p.w - Capsule.unit_width) <= 1

RightmostPainted ==
    CHOOSE m \in {Capsule.pastes[i].x + Capsule.pastes[i].w :
                    i \in DOMAIN Capsule.pastes} :
        \A i \in DOMAIN Capsule.pastes :
            m >= Capsule.pastes[i].x + Capsule.pastes[i].w

(* C5: the trim width is positive, never exceeds the pre-trim canvas
   width, and equals the rightmost painted x. *)
C5_TrimWithinCanvas ==
    (CapsuleReturned /\ Capsule.pastes # <<>>) =>
        /\ 0 < Capsule.real_width
        /\ Capsule.real_width <= Capsule.total_width
        /\ Capsule.real_width = RightmostPainted

(* C9: the band structure.  Tops start at (0, 0); outerwear continues in
   the same band right after the last top cell; accessories sit in a band
   at y = unit.height + spacing exactly when outerwear and accessories are
   both present, starting at the x of the first outerwear cell, and
   otherwise follow the tops in the first band; underwear starts at x = 0
   one band below the last occupied band, footwear at x = 0 one band below
   the underwear band. *)
C9_BandStructure ==
    CapsuleReturned =>
        /\ Len(Capsule.pastes) = Len(Pooled)
        /\ Pooled # <<>> => UnitIsLargest
        /\ \A i \in DOMAIN Capsule.pastes :
              LET p == Capsule.pastes[i]
              IN /\ p.band_y = BandY(p.type)
                 /\ p.y = p.band_y
                 /\ p.j = 0 => p.cell_x = BandStartX(p.type)
        /\ (\E i \in DOMAIN Capsule.pastes :
               /\ Capsule.pastes[i].type = ACCESSORY
               /\ Capsule.pastes[i].band_y = BandStep)
           <=> BandBPresent

C9_Witness ==
    /\ CapsuleReturned
    /\ Count(OUTWEAR) > 0 /\ Count(ACCESSORY) > 0
    /\ Count(UNDERWEAR) > 0 /\ Count(FOOTWEAR) > 0
    /\ Len(Capsule.pastes) = 4

Overlap(p, q) ==
    /\ p.x < q.x + q.w /\ q.x < p.x + p.w
    /\ p.y < q.y + q.h /\ q.y < p.y + p.h

(* C10: no two pasted garment rectangles overlap. *)
C10_NoOverlap ==
    CapsuleReturned =>
        \A i, k \in DOMAIN Capsule.pastes :
            i < k => ~Overlap(Capsule.pastes[i], Capsule.pastes[k])

====
